---- MODULE Spec2Model ----
(***************************************************************************)
(* Model of super_trunfo.c: two city cards are read from standard input,   *)
(* their derived metrics are computed, two distinct attributes are chosen  *)
(* and the card with the greater summed score is announced.                *)
(*                                                                         *)
(* A C double is modelled as a record [k, h, n, d]:                        *)
(*   k = "fin"  : the finite value (h * 10^9 + n) / d, d > 0, in lowest    *)
(*                terms (two digits in base 10^9, so that the program's    *)
(*                factor 1e9 is exact inside TLC's 32-bit integers);       *)
(*   k = "pinf", "ninf", "nan" : +infinity, -infinity, NaN, which          *)
(*                scanf("%lf") accepts as input ("inf", "-inf", "nan").    *)
(* Finite arithmetic is exact: rounding and overflow are not modelled.     *)
(***************************************************************************)
EXTENDS Integers, Sequences, FiniteSets, TLC

\* ---------------------------------------------------------------- bounds
MaxPop == 1
MaxTur == 0
MaxPopFicha == 3
MaxTurFicha == 1

\* ------------------------------------------------------ program constants
ATR_POPULACAO == 1
ATR_AREA == 2
ATR_PIB == 3
ATR_TURISMO == 4
ATR_DENSIDADE == 5
ATR_PIB_PC == 6

\* ------------------------------------------------------ double arithmetic
\* The arithmetic is written as functions, which TLC applies to evaluated
\* arguments; each operator below is the application of one of them.
Abs(x) == IF x < 0 THEN 0 - x ELSE x

GCD[x \in Nat, y \in Nat] == IF y = 0 THEN x ELSE GCD[y, x % y]

Dbl == [k : {"fin", "pinf", "ninf", "nan"}, h : Int, n : Int, d : Nat]

FinF[h \in Int, n \in Int, d \in Int] ==
    LET s  == IF d < 0 THEN 0 - 1 ELSE 1
        g0 == GCD[GCD[Abs(h), Abs(n)], Abs(d)]
        g  == IF g0 = 0 THEN 1 ELSE g0
    IN  [k |-> "fin", h |-> (s * h) \div g, n |-> (s * n) \div g, d |-> Abs(d) \div g]

\* the finite double (h * 10^9 + n) / d, d # 0, in lowest terms with d > 0;
\* n and d stay far below 10^9, so that each finite value has one record
Fin(h, n, d) == FinF[h, n, d]

PInf == [k |-> "pinf", h |-> 0, n |-> 0, d |-> 1]
NInf == [k |-> "ninf", h |-> 0, n |-> 0, d |-> 1]
NaN == [k |-> "nan", h |-> 0, n |-> 0, d |-> 1]

\* (double)i for an integer i
DInt(i) == Fin(0, i, 1)

Zero == DInt(0)

\* the literal 1e9
DBilhao == Fin(1, 0, 1)

\* -1, 0 or 1: the sign of a double that is not NaN
Sinal(x) ==
    CASE x.k = "pinf" -> 1
      [] x.k = "ninf" -> 0 - 1
      [] OTHER -> IF x.h > 0 \/ (x.h = 0 /\ x.n > 0) THEN 1
                  ELSE IF x.h = 0 /\ x.n = 0 THEN 0 ELSE 0 - 1

ComSinal(s) == IF s > 0 THEN PInf ELSE NInf

DGtF[x \in Dbl, y \in Dbl] ==
    IF x.k = "nan" \/ y.k = "nan" THEN FALSE
    ELSE IF x.k = "pinf" THEN y.k # "pinf"
    ELSE IF x.k = "ninf" THEN FALSE
    ELSE IF y.k = "pinf" THEN FALSE
    ELSE IF y.k = "ninf" THEN TRUE
    ELSE LET g == GCD[x.d, y.d]
             a == y.d \div g
             b == x.d \div g
         IN  \/ x.h * a > y.h * b
             \/ (x.h * a = y.h * b /\ x.n * a > y.n * b)

\* x > y on doubles; false whenever an operand is NaN
DGt(x, y) == DGtF[x, y]

DEqF[x \in Dbl, y \in Dbl] == x.k # "nan" /\ y.k # "nan" /\ x = y

\* x == y on doubles; false whenever an operand is NaN
DEq(x, y) == DEqF[x, y]

\* x >= y on doubles; false whenever an operand is NaN
DGe(x, y) == DGtF[x, y] \/ DEqF[x, y]

DAddF[x \in Dbl, y \in Dbl] ==
    IF x.k = "nan" \/ y.k = "nan" THEN NaN
    ELSE IF x.k # "fin" THEN (IF y.k # "fin" /\ y.k # x.k THEN NaN ELSE x)
    ELSE IF y.k # "fin" THEN y
    ELSE LET g == GCD[x.d, y.d]
             a == y.d \div g
             b == x.d \div g
         IN  Fin(x.h * a + y.h * b, x.n * a + y.n * b, x.d * a)

\* x + y on doubles
DAdd(x, y) == DAddF[x, y]

DMulF[x \in Dbl, y \in Dbl] ==
    IF x.k = "nan" \/ y.k = "nan" THEN NaN
    ELSE IF x.k # "fin" \/ y.k # "fin"
         THEN (IF Sinal(x) * Sinal(y) = 0 THEN NaN ELSE ComSinal(Sinal(x) * Sinal(y)))
    ELSE IF x.h = 0 THEN Fin(x.n * y.h, x.n * y.n, x.d * y.d)
    ELSE Fin(x.h * y.n, x.n * y.n, x.d * y.d)

\* x * y on doubles, where at most one finite operand reaches 10^9
DMul(x, y) == DMulF[x, y]

DDivF[x \in Dbl, y \in Dbl] ==
    IF x.k = "nan" \/ y.k = "nan" THEN NaN
    ELSE IF y.k # "fin" THEN (IF x.k # "fin" THEN NaN ELSE Zero)
    ELSE IF y.h = 0 /\ y.n = 0
         THEN (IF Sinal(x) = 0 THEN NaN ELSE ComSinal(Sinal(x)))
    ELSE IF x.k # "fin" THEN ComSinal(Sinal(x) * Sinal(y))
    ELSE Fin(x.h * y.d, x.n * y.d, x.d * y.n)

\* x / y on doubles, where a finite divisor stays below 10^9; a zero divisor
\* gives what IEEE 754 gives: an infinity, or NaN for 0/0
DDiv(x, y) == DDivF[x, y]

EhFinito(x) == x.k = "fin"

\* ------------------------------------------------------------ data model
VARIABLES
    pc,          \* position of main / ler_ficha
    carta,       \* 1 or 2: the card ler_ficha is filling
    c1, c2,      \* the two FichaCidade of main
    atr1, atr2,  \* the two chosen attributes of main
    a,           \* the local of ler_atributo_distinto
    rejeitada,   \* the last entry at the current prompt was refused and re-prompted
    metricas,    \* per card, how many times calcular_metricas has run
    capturados,  \* per card, the raw fields ler_ficha has stored
    c1_v1_base, c2_v1_base, c1_v2_base, c2_v2_base,
    nome1, nome2,        \* the attribute names printed
    c1_score, c2_score,
    vencedor,    \* which operand of the final conditional is printed
    erro         \* the error signalled by a lookup; the code has no such path

vars == <<pc, carta, c1, c2, atr1, atr2, a, rejeitada, metricas, capturados,
          c1_v1_base, c2_v1_base, c1_v2_base, c2_v2_base, nome1, nome2,
          c1_score, c2_score, vencedor, erro>>

\* FichaCidade f = {0}
FichaZero ==
    [estado |-> "", codigo |-> "", cidade |-> "", populacao |-> 0,
     area_km2 |-> Zero, pib_bilhoes |-> Zero, pontos_turisticos |-> 0,
     densidade |-> Zero, pib_per_capita |-> Zero]

CamposCrus == {"populacao", "area_km2", "pib_bilhoes", "pontos_turisticos"}

nome_atributo(atr) ==
    CASE atr = ATR_POPULACAO -> "Populacao"
      [] atr = ATR_AREA -> "Area"
      [] atr = ATR_PIB -> "PIB"
      [] atr = ATR_TURISMO -> "Pontos Turisticos"
      [] atr = ATR_DENSIDADE -> "Densidade Demografica"
      [] atr = ATR_PIB_PC -> "PIB per Capita"
      [] OTHER -> "Desconhecido"

\* ------------------------------------------------------- pure computation
calcular_metricas_sem_guarda(f) ==
    [f EXCEPT
       !.densidade = DDiv(DInt(f.populacao), f.area_km2),
       !.pib_per_capita = DDiv(DMul(f.pib_bilhoes, DBilhao), DInt(f.populacao))]

calcular_metricas(f) ==
    [f EXCEPT
       !.densidade = IF DGt(f.area_km2, Zero)
                     THEN DDiv(DInt(f.populacao), f.area_km2)
                     ELSE Zero,
       !.pib_per_capita = IF f.populacao > 0
                          THEN DDiv(DMul(f.pib_bilhoes, DBilhao), DInt(f.populacao))
                          ELSE Zero]

valor_atributo_base_sem_default(f, atr) ==
    CASE atr = ATR_AREA -> f.area_km2
      [] atr = ATR_PIB -> f.pib_bilhoes
      [] atr = ATR_TURISMO -> DInt(f.pontos_turisticos)
      [] atr = ATR_DENSIDADE -> f.densidade
      [] atr = ATR_PIB_PC -> f.pib_per_capita
      [] OTHER -> DInt(f.populacao)

valor_atributo_base(f, atr) ==
    CASE atr = ATR_POPULACAO -> DInt(f.populacao)
      [] atr = ATR_AREA -> f.area_km2
      [] atr = ATR_PIB -> f.pib_bilhoes
      [] atr = ATR_TURISMO -> DInt(f.pontos_turisticos)
      [] atr = ATR_DENSIDADE -> f.densidade
      [] atr = ATR_PIB_PC -> f.pib_per_capita
      [] OTHER -> Zero

pontuar_atributo_sem_inversao(f, atr) == valor_atributo_base(f, atr)

pontuar_atributo_ramos_trocados(f, atr) ==
    LET v == valor_atributo_base(f, atr)
    IN  IF atr = ATR_DENSIDADE
        THEN (IF DGt(v, Zero) THEN Zero ELSE DDiv(DInt(1), v))
        ELSE v

pontuar_atributo(f, atr) ==
    LET v == valor_atributo_base(f, atr)
    IN  IF atr = ATR_DENSIDADE
        THEN (IF DGt(v, Zero) THEN DDiv(DInt(1), v) ELSE Zero)
        ELSE v

\* c_score of main: the sum of the two attribute scores of one card
Pontuacao(f, x1, x2) == DAdd(pontuar_atributo(f, x1), pontuar_atributo(f, x2))

VencedorMaiorOuIgual(s1, s2) ==
    IF DGt(s1, s2) THEN "c1"
    ELSE IF DGt(s2, s1) \/ DEq(s2, s1) THEN "c2"
    ELSE "Empate!"

\* the operand the final conditional of main selects: "c1" stands for
\* c1.cidade, "c2" for c2.cidade
Vencedor(s1, s2) ==
    IF DGt(s1, s2) THEN "c1"
    ELSE IF DGt(s2, s1) THEN "c2"
    ELSE "Empate!"

\* what main announces for card x entered first and card y entered second
Resultado(x, y, x1, x2) == Vencedor(Pontuacao(x, x1, x2), Pontuacao(y, x1, x2))

AtributoAceitoSemDistinto(v, diferente_de) == ~(v < 1 \/ v > 6)

AtributoAceitoTesteInvertido(v, diferente_de) == ~(v < 1 \/ v > 6) /\ ~(v # diferente_de)

\* the test ler_atributo_distinto makes before it returns the entry
AtributoAceito(v, diferente_de) == ~(v < 1 \/ v > 6) /\ ~(v = diferente_de)

\* ------------------------------------------------------------ the inputs
\* what scanf("%lu") can store in populacao: an unsigned long, never negative
\* (a text with a minus sign wraps around to a large value, not modelled)
EntradasUlong == 0 .. MaxPop

\* what scanf("%d") can store in pontos_turisticos: any int, negative included
EntradasInt == (0 - 1) .. MaxTur

\* what scanf("%lf") can store in area_km2 and in pib_bilhoes: any double,
\* negative values and NaN included
EntradasArea == {DInt(0 - 1), Zero, DInt(2), NaN}

EntradasPib == {Zero, DInt(1)}

\* what scanf("%d") can store in the local a of ler_atributo_distinto
EntradasAtributo == 0 .. 7

Estados == {"A"}

Codigos == {"A01"}

Cidades == {"Cidade"}

\* ------------------------------------------------------------ control flow
ProximoPcCalculaCedo(p, c) ==
    CASE p = "ident" -> "populacao"
      [] p = "populacao" -> "area"
      [] p = "area" -> "calcular"
      [] p = "calcular" -> "pib"
      [] p = "pib" -> "turismo"
      [] p = "turismo" -> IF c = 1 THEN "ident" ELSE "atr1"
      [] p = "atr1" -> "atr2"
      [] p = "atr2" -> "comparar"
      [] OTHER -> "fim"

\* the statement that follows statement p, in ler_ficha for card c and then
\* in main
ProximoPc(p, c) ==
    CASE p = "ident" -> "populacao"
      [] p = "populacao" -> "area"
      [] p = "area" -> "pib"
      [] p = "pib" -> "turismo"
      [] p = "turismo" -> "calcular"
      [] p = "calcular" -> IF c = 1 THEN "ident" ELSE "atr1"
      [] p = "atr1" -> "atr2"
      [] p = "atr2" -> "comparar"
      [] OTHER -> "fim"

\* the card the statement after p works on: main calls ler_ficha on c1, then c2
ProximaCarta(p, c) == IF ProximoPc(p, c) = "ident" THEN 2 ELSE c

PromptsNumericos == {"populacao", "area", "pib", "turismo", "atr1", "atr2"}

Ficha(i) == IF i = 1 THEN c1 ELSE c2

Grava(f) ==
    /\ c1' = IF carta = 1 THEN f ELSE c1
    /\ c2' = IF carta = 2 THEN f ELSE c2

Avanca ==
    /\ pc' = ProximoPc(pc, carta)
    /\ carta' = ProximaCarta(pc, carta)
    /\ rejeitada' = FALSE

Saidas == <<c1_v1_base, c2_v1_base, c1_v2_base, c2_v2_base, nome1, nome2,
            c1_score, c2_score, vencedor, erro>>

Captura(campo) == capturados' = [capturados EXCEPT ![carta] = @ \cup {campo}]

Init ==
    /\ pc = "ident"
    /\ carta = 1
    /\ c1 = FichaZero
    /\ c2 = FichaZero
    /\ atr1 = 0
    /\ atr2 = 0
    /\ a = 0
    /\ rejeitada = FALSE
    /\ metricas = <<0, 0>>
    /\ capturados = <<{}, {}>>
    /\ c1_v1_base = Zero
    /\ c2_v1_base = Zero
    /\ c1_v2_base = Zero
    /\ c2_v2_base = Zero
    /\ nome1 = ""
    /\ nome2 = ""
    /\ c1_score = Zero
    /\ c2_score = Zero
    /\ vencedor = ""
    /\ erro = ""

\* ler_ficha: ler_char, scanf("%4s") and ler_texto; none of them loops
LerIdentificacao ==
    /\ pc = "ident"
    /\ \E e \in Estados, k \in Codigos, n \in Cidades :
          Grava([Ficha(carta) EXCEPT !.estado = e, !.codigo = k, !.cidade = n])
    /\ Avanca
    /\ UNCHANGED <<atr1, atr2, a, metricas, capturados, Saidas>>

\* ler_ulong, ler_double, ler_int: scanf does not return 1 (text that does not
\* parse, or end of input); the target is left alone and the prompt repeats
EntradaInvalida ==
    /\ pc \in PromptsNumericos
    /\ rejeitada' = TRUE
    /\ UNCHANGED <<pc, carta, c1, c2, atr1, atr2, a, metricas, capturados, Saidas>>

LerPopulacao ==
    /\ pc = "populacao"
    /\ \E v \in EntradasUlong : Grava([Ficha(carta) EXCEPT !.populacao = v])
    /\ Captura("populacao")
    /\ Avanca
    /\ UNCHANGED <<atr1, atr2, a, metricas, Saidas>>

LerArea ==
    /\ pc = "area"
    /\ \E v \in EntradasArea : Grava([Ficha(carta) EXCEPT !.area_km2 = v])
    /\ Captura("area_km2")
    /\ Avanca
    /\ UNCHANGED <<atr1, atr2, a, metricas, Saidas>>

LerPib ==
    /\ pc = "pib"
    /\ \E v \in EntradasPib : Grava([Ficha(carta) EXCEPT !.pib_bilhoes = v])
    /\ Captura("pib_bilhoes")
    /\ Avanca
    /\ UNCHANGED <<atr1, atr2, a, metricas, Saidas>>

LerTurismo ==
    /\ pc = "turismo"
    /\ \E v \in EntradasInt : Grava([Ficha(carta) EXCEPT !.pontos_turisticos = v])
    /\ Captura("pontos_turisticos")
    /\ Avanca
    /\ UNCHANGED <<atr1, atr2, a, metricas, Saidas>>

\* the call calcular_metricas(f) of ler_ficha
CalcularMetricas ==
    /\ pc = "calcular"
    /\ Grava(calcular_metricas(Ficha(carta)))
    /\ metricas' = [metricas EXCEPT ![carta] = @ + 1]
    /\ Avanca
    /\ UNCHANGED <<atr1, atr2, a, capturados, Saidas>>

\* the argument diferente_de of the call of ler_atributo_distinto in progress
DiferenteDe == IF pc = "atr1" THEN 0 ELSE atr1

\* ler_atributo_distinto: an entry that parses and fails a test; continue
AtributoRecusado ==
    /\ pc \in {"atr1", "atr2"}
    /\ \E v \in EntradasAtributo :
          /\ ~AtributoAceito(v, DiferenteDe)
          /\ a' = v
    /\ rejeitada' = TRUE
    /\ UNCHANGED <<pc, carta, c1, c2, atr1, atr2, metricas, capturados, Saidas>>

\* ler_atributo_distinto: an entry that passes both tests; return a. The local
\* ends with the call, and the next call starts from int a = 0
AtributoEscolhido ==
    /\ pc \in {"atr1", "atr2"}
    /\ \E v \in EntradasAtributo :
          /\ AtributoAceito(v, DiferenteDe)
          /\ atr1' = IF pc = "atr1" THEN v ELSE atr1
          /\ atr2' = IF pc = "atr2" THEN v ELSE atr2
    /\ a' = 0
    /\ Avanca
    /\ UNCHANGED <<c1, c2, metricas, capturados, Saidas>>

\* main from "Mostrar comparacao" to the announcement of the winner
Comparar ==
    /\ pc = "comparar"
    /\ c1_v1_base' = valor_atributo_base(c1, atr1)
    /\ c2_v1_base' = valor_atributo_base(c2, atr1)
    /\ c1_v2_base' = valor_atributo_base(c1, atr2)
    /\ c2_v2_base' = valor_atributo_base(c2, atr2)
    /\ nome1' = nome_atributo(atr1)
    /\ nome2' = nome_atributo(atr2)
    /\ c1_score' = Pontuacao(c1, atr1, atr2)
    /\ c2_score' = Pontuacao(c2, atr1, atr2)
    /\ vencedor' = Vencedor(Pontuacao(c1, atr1, atr2), Pontuacao(c2, atr1, atr2))
    /\ Avanca
    /\ UNCHANGED <<c1, c2, atr1, atr2, a, metricas, capturados, erro>>

Progresso ==
    \/ LerIdentificacao
    \/ LerPopulacao
    \/ LerArea
    \/ LerPib
    \/ LerTurismo
    \/ CalcularMetricas
    \/ AtributoEscolhido
    \/ Comparar

Next ==
    \/ LerIdentificacao
    \/ EntradaInvalida
    \/ LerPopulacao
    \/ LerArea
    \/ LerPib
    \/ LerTurismo
    \/ CalcularMetricas
    \/ AtributoRecusado
    \/ AtributoEscolhido
    \/ Comparar

Spec == Init /\ [][Next]_vars

\* every prompt eventually receives an entry that is accepted
SpecJusto == Spec /\ WF_vars(Progresso)

\* ------------------------------------------- one card, the pure functions
\* the values scanf("%lf") can store, for the specification of one card
EntradasDouble ==
    {DInt(0 - 1), Zero, Fin(0, 1, 2), DInt(1), DInt(2), DInt(3), PInf, NInf, NaN}

\* a card as ler_ficha holds it when it calls calcular_metricas
FichasCruas ==
    {[FichaZero EXCEPT !.estado = "A", !.codigo = "A01", !.cidade = "Cidade",
                       !.populacao = p, !.area_km2 = ar, !.pib_bilhoes = pb,
                       !.pontos_turisticos = t] :
        p \in 0 .. MaxPopFicha, ar \in EntradasDouble, pb \in EntradasDouble,
        t \in (0 - 1) .. MaxTurFicha}

InitFicha ==
    /\ pc = "calcular"
    /\ carta = 1
    /\ c1 \in FichasCruas
    /\ c2 = FichaZero
    /\ atr1 = 0
    /\ atr2 = 0
    /\ a = 0
    /\ rejeitada = FALSE
    /\ metricas = <<0, 0>>
    /\ capturados = <<CamposCrus, {}>>
    /\ c1_v1_base = Zero
    /\ c2_v1_base = Zero
    /\ c1_v2_base = Zero
    /\ c2_v2_base = Zero
    /\ nome1 = ""
    /\ nome2 = ""
    /\ c1_score = Zero
    /\ c2_score = Zero
    /\ vencedor = ""
    /\ erro = ""

\* calcular_metricas(&c1)
CalcularFicha ==
    /\ pc = "calcular"
    /\ c1' = calcular_metricas(c1)
    /\ metricas' = [metricas EXCEPT ![1] = @ + 1]
    /\ pc' = "pontuar"
    /\ UNCHANGED <<carta, c2, atr1, atr2, a, rejeitada, capturados, Saidas>>

\* nome_atributo(atr), valor_atributo_base(&c1, atr) and
\* pontuar_atributo(&c1, atr), for any int atr
PontuarFicha ==
    /\ pc = "pontuar"
    /\ \E atr \in EntradasAtributo :
          /\ atr1' = atr
          /\ nome1' = nome_atributo(atr)
          /\ c1_v1_base' = valor_atributo_base(c1, atr)
          /\ c1_score' = pontuar_atributo(c1, atr)
    /\ pc' = "fim"
    /\ UNCHANGED <<carta, c1, c2, atr2, a, rejeitada, metricas, capturados,
                   c2_v1_base, c1_v2_base, c2_v2_base, nome2, c2_score,
                   vencedor, erro>>

NextFicha == CalcularFicha \/ PontuarFicha

SpecFicha == InitFicha /\ [][NextFicha]_vars

\* ------------------------------------------------------------- the claims
Atributos == ATR_POPULACAO .. ATR_PIB_PC

Resultados == {"c1", "c2", "Empate!"}

\* C1: when main has announced the result, each card's score is the plain sum
\* of its two attribute scores, card 1 is announced iff its score is greater,
\* card 2 iff its score is greater, "Empate!" iff the two scores are equal,
\* and exactly one of the three is announced.
C1_Anuncio ==
    pc = "fim" =>
       /\ c1_score = DAdd(pontuar_atributo(c1, atr1), pontuar_atributo(c1, atr2))
       /\ c2_score = DAdd(pontuar_atributo(c2, atr1), pontuar_atributo(c2, atr2))
       /\ vencedor \in Resultados
       /\ (vencedor = "c1") <=> DGt(c1_score, c2_score)
       /\ (vencedor = "c2") <=> DGt(c2_score, c1_score)
       /\ (vencedor = "Empate!") <=> DEq(c1_score, c2_score)

\* C1, the part the code keeps: the same statement whenever neither score is
\* NaN, which is every run whose raw values are all >= 0.
C1_SemNaN ==
    (pc = "fim" /\ c1_score.k # "nan" /\ c2_score.k # "nan") => C1_Anuncio

NaoNegativa(f) ==
    /\ f.populacao >= 0
    /\ f.pontos_turisticos >= 0
    /\ DGe(f.area_km2, Zero)
    /\ DGe(f.pib_bilhoes, Zero)

C1_NaNSoComNegativos ==
    (pc = "fim" /\ NaoNegativa(c1) /\ NaoNegativa(c2)) =>
        (c1_score.k # "nan" /\ c2_score.k # "nan")

\* C4: entering the two cards in the other order announces the same card:
\* the winner follows the card, and a tie stays a tie.
C4_Simetria ==
    pc = "fim" =>
       LET r == Resultado(c2, c1, atr1, atr2)
       IN  /\ vencedor = "c1" => r = "c2"
           /\ vencedor = "c2" => r = "c1"
           /\ vencedor = "Empate!" => r = "Empate!"

C4_Testemunha ==
    /\ pc = "fim"
    /\ vencedor = "c2"
    /\ c1 # c2
    /\ Resultado(c2, c1, atr1, atr2) = "c1"

C5_Inv ==
    /\ pc \in {"atr2", "comparar", "fim"} => atr1 \in 1 .. 6
    /\ pc \in {"comparar", "fim"} => (atr2 \in 1 .. 6 /\ atr1 # atr2)

C5_Passo ==
    pc \in {"atr1", "atr2"} =>
       /\ (pc = "atr1" /\ pc' # pc) => (atr1' \in 1 .. 6 /\ atr1' # 0)
       /\ (pc = "atr2" /\ pc' # pc) => (atr2' \in 1 .. 6 /\ atr2' # atr1)
       /\ (pc' = pc /\ a' # a) =>
             (rejeitada' /\ (a' < 1 \/ a' > 6 \/ a' = DiferenteDe))
       /\ pc' = pc => (atr1' = atr1 /\ atr2' = atr2)

\* C5: whenever main reaches the comparison, atr1 and atr2 are in 1..6 and
\* differ; ler_atributo_distinto returns only an entry in 1..6 other than
\* diferente_de, and an entry it keeps asking after is one outside 1..6 or
\* equal to diferente_de.
C5_Distintos == []C5_Inv /\ [][C5_Passo]_vars

C5_Testemunha == pc = "atr2" /\ rejeitada /\ a = atr1 /\ atr1 \in 1 .. 6

\* C7: once ler_ficha has finished a card, its raw numeric fields are all >= 0.
C7_NaoNegativos ==
    \A i \in 1 .. 2 : metricas[i] >= 1 => NaoNegativa(Ficha(i))

C9_Inv ==
    \A i \in 1 .. 2 :
       /\ metricas[i] <= 1
       /\ metricas[i] = 1 => capturados[i] = CamposCrus
       /\ pc \in {"atr1", "atr2", "comparar", "fim"} => metricas[i] = 1
       /\ metricas[i] = 1 =>
             /\ Ficha(i).densidade = calcular_metricas(Ficha(i)).densidade
             /\ Ficha(i).pib_per_capita = calcular_metricas(Ficha(i)).pib_per_capita

C9_Passo ==
    \A i \in 1 .. 2 :
       metricas[i] = 1 => (Ficha(i)' = Ficha(i) /\ metricas'[i] = 1)

\* C9: for each card calcular_metricas runs exactly once, after all four raw
\* fields are captured and before the comparison reads the card; no field of
\* the card is written afterwards, so the derived fields agree with the raw
\* fields at every read.
C9_UmaVez == []C9_Inv /\ [][C9_Passo]_vars

C9_Testemunha ==
    /\ pc = "comparar"
    /\ metricas = <<1, 1>>
    /\ c1.densidade # Zero
    /\ c2.pib_per_capita # Zero

C10_Passo ==
    (pc \in PromptsNumericos /\ pc' = pc) =>
       /\ rejeitada'
       /\ carta' = carta
       /\ c1' = c1
       /\ c2' = c2
       /\ atr1' = atr1
       /\ atr2' = atr2

\* C10: if every prompt eventually receives an entry that is accepted, the
\* run announces a result and ends; an entry that is refused only repeats
\* the prompt, and leaves the captured fields and the first attribute alone.
C10_Termina ==
    /\ <>(pc = "fim" /\ vencedor \in Resultados)
    /\ [][C10_Passo]_vars

C10_Testemunha == pc = "fim" /\ vencedor \in Resultados /\ atr1 # atr2

\* C1: a run the original statement fails on and the code announces a tie in
C1_Caso == pc = "fim" /\ vencedor = "Empate!" /\ c1_score.k = "nan"

\* C7: a card that ler_ficha has finished holding a negative raw field
C7_Caso == pc = "fim" /\ c1.pontos_turisticos < 0

\* ------------------------------------------ the claims on the pure functions
Calculada == metricas[1] = 1

\* C2: pontuar_atributo returns 1/densidade for ATR_DENSIDADE when
\* densidade > 0 and 0 when it is not, and for each other attribute in 1..6
\* exactly the base value: populacao, area_km2, pib_bilhoes,
\* pontos_turisticos or pib_per_capita.
C2_Pontuar ==
    (pc = "fim" /\ atr1 \in Atributos) =>
       /\ (atr1 = ATR_DENSIDADE /\ DGt(c1.densidade, Zero)) =>
             c1_score = DDiv(DInt(1), c1.densidade)
       /\ (atr1 = ATR_DENSIDADE /\ ~DGt(c1.densidade, Zero)) => c1_score = Zero
       /\ atr1 # ATR_DENSIDADE => c1_score = c1_v1_base
       /\ atr1 = ATR_POPULACAO => c1_v1_base = DInt(c1.populacao)
       /\ atr1 = ATR_AREA => c1_v1_base = c1.area_km2
       /\ atr1 = ATR_PIB => c1_v1_base = c1.pib_bilhoes
       /\ atr1 = ATR_TURISMO => c1_v1_base = DInt(c1.pontos_turisticos)
       /\ atr1 = ATR_DENSIDADE => c1_v1_base = c1.densidade
       /\ atr1 = ATR_PIB_PC => c1_v1_base = c1.pib_per_capita

C2_Testemunha ==
    /\ pc = "fim"
    /\ atr1 = ATR_DENSIDADE
    /\ c1.densidade = DInt(2)
    /\ c1_score = Fin(0, 1, 2)

C3_Valores ==
    Calculada =>
       /\ DGt(c1.area_km2, Zero) =>
             c1.densidade = DDiv(DInt(c1.populacao), c1.area_km2)
       /\ ~DGt(c1.area_km2, Zero) => c1.densidade = Zero
       /\ c1.populacao > 0 =>
             c1.pib_per_capita =
                DDiv(DMul(c1.pib_bilhoes, DBilhao), DInt(c1.populacao))
       /\ ~(c1.populacao > 0) => c1.pib_per_capita = Zero

EhInfinito(x) == x.k \in {"pinf", "ninf"}

\* C3 as stated: the two derived values are as below and, for all raw values,
\* neither of them is infinite.
C3_SemInfinito ==
    Calculada =>
       /\ C3_Valores
       /\ ~EhInfinito(c1.densidade)
       /\ ~EhInfinito(c1.pib_per_capita)

\* C3, amended: after calcular_metricas, densidade is populacao / area_km2
\* when area_km2 > 0 and 0 otherwise, pib_per_capita is
\* (pib_bilhoes * 1e9) / populacao when populacao > 0 and 0 otherwise, so no
\* division by zero is performed; the derived values are finite whenever
\* area_km2 and pib_bilhoes are finite.
C3_Metricas ==
    Calculada =>
       /\ C3_Valores
       /\ (EhFinito(c1.area_km2) /\ EhFinito(c1.pib_bilhoes)) =>
             (EhFinito(c1.densidade) /\ EhFinito(c1.pib_per_capita))

C3_Testemunha ==
    /\ Calculada
    /\ c1.area_km2 = Zero
    /\ c1.populacao > 0
    /\ c1.densidade = Zero
    /\ c1.pib_bilhoes = DInt(3)
    /\ c1.pib_per_capita = Fin(3, 0, c1.populacao)

C8_SoArea ==
    (Calculada /\ NaoNegativa(c1) /\ DGt(c1.area_km2, Zero)) =>
       /\ DGt(c1.densidade, Zero)
       /\ (pc = "fim" /\ atr1 = ATR_DENSIDADE) => DGt(c1_score, Zero)

\* C8, amended: for a card with finite area_km2 > 0 and populacao > 0,
\* densidade > 0 and the score of ATR_DENSIDADE is > 0.
C8_AreaEPopulacao ==
    (Calculada /\ EhFinito(c1.area_km2) /\ DGt(c1.area_km2, Zero)
       /\ c1.populacao > 0) =>
       /\ DGt(c1.densidade, Zero)
       /\ (pc = "fim" /\ atr1 = ATR_DENSIDADE) => DGt(c1_score, Zero)

C8_Testemunha ==
    /\ pc = "fim"
    /\ atr1 = ATR_DENSIDADE
    /\ c1.area_km2 = Fin(0, 1, 2)
    /\ c1.populacao = 3
    /\ c1_score = Fin(0, 1, 6)
====
